---- MODULE Spec2Model ----
(***************************************************************************)
(* Brand-mention matching of wtnoyu/processing_dialogue_transcripts:       *)
(* text normalisation (utils.preprocess_text), n-gram generation           *)
(* (utils.get_ngrams), the inverted synonym index                          *)
(* (02_match_synonyms.build_synonym_index) and the per-dialogue probe      *)
(* (02_match_synonyms.match_brands_in_dialog).                             *)
(*                                                                         *)
(* A Python str is modelled as a sequence of one-character strings, so     *)
(* that stripping, punctuation removal, lower-casing, splitting and        *)
(* joining are computed character by character.                            *)
(*                                                                         *)
(* Further specifications cover the matching run over the rows of the      *)
(* dialogue file (SpecRun), preprocess_text and get_ngrams on their own    *)
(* (SpecNormalize, SpecNgrams), the step runner brand_normalizer.py        *)
(* (SpecPipeline), the concurrent verify_brands tasks of 03_filter_llm.py  *)
(* (SpecVerify), and the RateLimiter and the retrying request of           *)
(* 01_generate_synonyms.py (SpecLimiter, SpecGenerate).                    *)
(***************************************************************************)
EXTENDS Integers, Sequences, FiniteSets, TLC

VARIABLES
    pc,                   \* position of the driver
    synonyms_data,        \* input of build_synonym_index: list of records
    synonym_index,        \* phrase -> set of brands
    max_words,            \* maximum number of words of an indexed phrase
    brand_original_form,  \* brand -> processed original name
    inserted,             \* history: one record per executed synonym_index[..].add(..)
    text,                 \* input of match_brands_in_dialog
    words,                \* local of match_brands_in_dialog
    ngrams,               \* n-grams the for loop has not visited yet
    found,                \* dict brand -> n-gram, as its insertion-ordered item list
    result,               \* list returned by match_brands_in_dialog
    results,              \* main of 02_match_synonyms.py: one record per processed row
    text_processed,       \* value returned by a call of preprocess_text(text)
    added,                \* get_ngrams: number of executed ngrams.add(..)
    args,                 \* brand_normalizer.py: parsed command line
    scripts,              \* brand_normalizer.py: steps whose script file exists
    step_pos,             \* brand_normalizer.py: position of the for loop in steps
    running,              \* brand_normalizer.py: step run_step is executing, 0 if none
    started,              \* history: step numbers run_step was called with
    finished,             \* history: one record per return of run_step
    exit_code,            \* brand_normalizer.py: exit status, -1 while running
    banner,               \* brand_normalizer.py: the success banner was printed
    progress,             \* 03_filter_llm.py: the shared progress dict
    permits,              \* 03_filter_llm.py: free slots of the semaphore
    vpc,                  \* verify_brands: position of each task
    attempt,              \* verify_brands: loop variable of each task
    requests,             \* history: session.post calls of each task
    returned,             \* history: statuses of the results each task returned
    now,                  \* 01_generate_synonyms.py: time.time(), in ticks
    last_call,            \* RateLimiter.last_call, in ticks
    lpc,                  \* RateLimiter.acquire: position of each calling task
    wake_at,              \* RateLimiter.acquire: end of the sleep of each task
    acquired_at,          \* history: time at which acquire returned to each task
    gen_brand,            \* generate_synonyms_for_brand: its argument brand
    retry_count,          \* generate_synonyms_for_brand: argument of the innermost call
    gpc,                  \* generate_synonyms_for_brand: position of the innermost call
    frames,               \* generate_synonyms_for_brand: calls that have not returned
    gen_log,              \* history: what each request came to
    gen_returned          \* history: records returned to the caller of the first call

vars == <<pc, synonyms_data, synonym_index, max_words, brand_original_form,
          inserted, text, words, ngrams, found, result, results,
          text_processed, added,
          args, scripts, step_pos, running, started, finished, exit_code, banner,
          progress, permits, vpc, attempt, requests, returned,
          now, last_call, lpc, wake_at, acquired_at,
          gen_brand, retry_count, gpc, frames, gen_log, gen_returned>>

buildVars == <<synonyms_data, brand_original_form, inserted>>
matchVars == <<text, words, ngrams, found, result>>
runVars == <<results>>
normVars == <<text_processed>>
ngramVars == <<added>>

pipeVars == <<args, scripts, step_pos, running, started, finished, exit_code, banner>>

\* The variables of 02_match_synonyms.py and utils.py.
matcherVars == <<synonym_index, max_words, buildVars, matchVars, runVars, normVars,
                 ngramVars>>

verifyVars == <<progress, permits, vpc, attempt, requests, returned>>

limiterVars == <<now, last_call, lpc, wake_at, acquired_at>>

genVars == <<gen_brand, retry_count, gpc, frames, gen_log, gen_returned>>

\* The variables of the programs other than 02_match_synonyms.py and utils.py.
serviceVars == <<pipeVars, verifyVars, limiterVars, genVars>>

\* The variables of the programs other than brand_normalizer.py.
notPipeVars == <<matcherVars, verifyVars, limiterVars, genVars>>

\* The variables of the programs other than 03_filter_llm.py.
notVerifyVars == <<matcherVars, pipeVars, limiterVars, genVars>>

\* The variables other than those of the RateLimiter.
notLimiterVars == <<matcherVars, pipeVars, verifyVars, genVars>>

\* The variables other than those of generate_synonyms_for_brand.
notGenVars == <<matcherVars, pipeVars, verifyVars, limiterVars>>

\* The variables of the other programs of the repository.
auxVars == <<runVars, normVars, ngramVars, serviceVars>>

\* No row has been processed.
RunIdle == results = <<>>

\* preprocess_text has not been called on its own.
NormIdle == text_processed = <<>>

\* get_ngrams has not been called on its own.
NgramIdle == added = 0

\* brand_normalizer.py has not been started.
PipeIdle ==
    /\ args = [step |-> 0, skip_synonyms |-> FALSE]
    /\ scripts = {}
    /\ step_pos = 0
    /\ running = 0
    /\ started = <<>>
    /\ finished = <<>>
    /\ exit_code = -1
    /\ banner = FALSE

\* 03_filter_llm.py has not been started.
VerifyIdle ==
    /\ progress = [done |-> 0, total |-> 0, success |-> 0, errors |-> 0]
    /\ permits = 0
    /\ vpc = <<>>
    /\ attempt = <<>>
    /\ requests = <<>>
    /\ returned = <<>>

\* No RateLimiter has been made.
LimiterIdle ==
    /\ now = 0
    /\ last_call = 0
    /\ lpc = <<>>
    /\ wake_at = <<>>
    /\ acquired_at = <<>>

\* generate_synonyms_for_brand has not been called.
GenIdle ==
    /\ gen_brand = <<>>
    /\ retry_count = 0
    /\ gpc = "idle"
    /\ frames = 0
    /\ gen_log = <<>>
    /\ gen_returned = <<>>

\* The other programs have not run.
AuxIdle ==
    RunIdle /\ NormIdle /\ NgramIdle /\ PipeIdle /\ VerifyIdle /\ LimiterIdle /\ GenIdle

----------------------------------------------------------------------------
(* Characters *)

\* The members of string.punctuation that occur in the modelled inputs.
Punctuation == {".", "-"}

\* The characters str.strip() and str.split() treat as whitespace.
Whitespace == {" "}

\* str.lower() on one character.
LowerChar(c) ==
    CASE c = "A" -> "a"
      [] c = "B" -> "b"
      [] OTHER -> c

Min(a, b) == IF a < b THEN a ELSE b

Max(a, b) == IF a > b THEN a ELSE b

----------------------------------------------------------------------------
(* utils.py *)

RECURSIVE lower(_)
\* str.lower()
lower(s) ==
    IF s = <<>> THEN <<>> ELSE <<LowerChar(Head(s))>> \o lower(Tail(s))

\* preprocess_text without the lower().
preprocess_text_NoLower(s) ==
    SelectSeq(s, LAMBDA c : c \notin Punctuation)

\* text.translate(str.maketrans('', '', string.punctuation)).lower()
preprocess_text(s) ==
    lower(SelectSeq(s, LAMBDA c : c \notin Punctuation))

RECURSIVE lstrip(_)
lstrip(s) ==
    IF s # <<>> /\ Head(s) \in Whitespace THEN lstrip(Tail(s)) ELSE s

RECURSIVE rstrip(_)
rstrip(s) ==
    IF s # <<>> /\ s[Len(s)] \in Whitespace
    THEN rstrip(SubSeq(s, 1, Len(s) - 1))
    ELSE s

\* str.strip()
strip(s) == rstrip(lstrip(s))

RECURSIVE split_from(_, _, _)
split_from(s, cur, acc) ==
    IF s = <<>>
    THEN IF cur = <<>> THEN acc ELSE Append(acc, cur)
    ELSE IF Head(s) \in Whitespace
         THEN split_from(Tail(s), <<>>, IF cur = <<>> THEN acc ELSE Append(acc, cur))
         ELSE split_from(Tail(s), Append(cur, Head(s)), acc)

\* str.split(): the maximal runs of non-whitespace characters, in order.
split(s) == split_from(s, <<>>, <<>>)

RECURSIVE join(_)
\* ' '.join(ws)
join(ws) ==
    IF ws = <<>> THEN <<>>
    ELSE IF Len(ws) = 1 THEN ws[1]
    ELSE ws[1] \o <<" ">> \o join(Tail(ws))

\* get_ngrams with the length bound one too large (n reaches max_n + 1).
get_ngrams_OneTooLong(ws, max_n) ==
    UNION { { join(SubSeq(ws, i + 1, i + n)) :
                n \in 1..(Min(max_n + 2, Len(ws) - i + 1) - 1) } :
            i \in 0..(Len(ws) - 1) }

\* words[a:b] for 0 <= a <= b: the slice stops at the end of the list.
Slice(ws, a, b) == SubSeq(ws, a + 1, Min(b, Len(ws)))

\* ngram_loop with the inner range not bounded by the end of the list.
ngram_loop_NoEndBound(ws, max_n) ==
    UNION { { <<i, n>> : n \in 1..max_n } : i \in 0..(Len(ws) - 1) }

\* The iterations <<i, n>> of
\*   for i in range(len(words)):
\*       for n in range(1, min(max_n + 1, len(words) - i + 1)):
ngram_loop(ws, max_n) ==
    UNION { { <<i, n>> : n \in 1..(Min(max_n + 1, Len(ws) - i + 1) - 1) } :
            i \in 0..(Len(ws) - 1) }

\* ngrams.add(' '.join(words[i:i+n])) over the iterations of the loop.
get_ngrams(ws, max_n) ==
    { join(Slice(ws, it[1], it[1] + it[2])) : it \in ngram_loop(ws, max_n) }

----------------------------------------------------------------------------
(* 02_match_synonyms.py: build_synonym_index *)

\* The length threshold of lines 32, 55 and 57.
MinLen == 3

\* defaultdict(set)
EmptyIndex == [k \in {} |-> {}]

\* {}
EmptyDict == <<>>

\* d[k]: the value, or KeyError when the key is missing.
Subscript(d, k) ==
    IF k \in DOMAIN d
    THEN [raised |-> FALSE, value |-> d[k]]
    ELSE [raised |-> TRUE, value |-> <<>>]

\* DictGet as a plain subscript: a missing key raises.
DictGet_Subscript(d, k, default) == Subscript(d, k)

\* d.get(k, default)
DictGet(d, k, default) ==
    [raised |-> FALSE, value |-> IF k \in DOMAIN d THEN d[k] ELSE default]

\* An exception leaving build_synonym_index.
Raise(st) == [st EXCEPT !.raised = TRUE]

\* BuildStart with max_words starting from 1.
BuildStart_MaxWordsOne ==
    [ synonym_index       |-> EmptyIndex,
      brand_original_form |-> [b \in {} |-> <<>>],
      max_words           |-> 1,
      inserted            |-> {},
      raised              |-> FALSE ]

\* The locals of build_synonym_index before the loop.
BuildStart ==
    [ synonym_index       |-> EmptyIndex,
      brand_original_form |-> [b \in {} |-> <<>>],
      max_words           |-> 0,
      inserted            |-> {},
      raised              |-> FALSE ]

\* IndexAdd with the set of a phrase replaced instead of extended.
IndexAdd_Overwrite(idx, processed, brand_name) ==
    IF processed \in DOMAIN idx
    THEN [idx EXCEPT ![processed] = {brand_name}]
    ELSE idx @@ (processed :> {brand_name})

\* synonym_index[processed].add(brand_name)
IndexAdd(idx, processed, brand_name) ==
    IF processed \in DOMAIN idx
    THEN [idx EXCEPT ![processed] = @ \cup {brand_name}]
    ELSE idx @@ (processed :> {brand_name})

\* brand_original_form[brand_name] = processed
DictSet(d, k, v) ==
    IF k \in DOMAIN d THEN [d EXCEPT ![k] = v] ELSE d @@ (k :> v)

\* The "# Original" block.
AddOriginal(st, brand_name, brand_data) ==
    LET got       == DictGet(brand_data, "original", <<>>)
        orig      == strip(got.value)
        processed == preprocess_text(orig)
    IN  IF got.raised THEN Raise(st)
        ELSE IF orig # <<>> /\ processed # <<>>
        THEN [ st EXCEPT
               !.synonym_index       = IndexAdd(@, processed, brand_name),
               !.brand_original_form = DictSet(@, brand_name, processed),
               !.max_words           = Max(@, Len(split(processed))),
               !.inserted            = @ \cup {[ raw |-> got.value, kind |-> "original",
                                                 key |-> processed, brand |-> brand_name ]} ]
        ELSE st

\* AddVariant without the update of max_words.
AddVariant_KeepsMaxWords(st, brand_name, variant_type, raw) ==
    LET var       == strip(raw)
        processed == preprocess_text(var)
    IN  IF var # <<>> /\ Len(var) > MinLen /\ processed # <<>> /\ Len(processed) > MinLen
        THEN [ st EXCEPT
               !.synonym_index = IndexAdd(@, processed, brand_name),
               !.inserted      = @ \cup {[ raw |-> raw, kind |-> variant_type,
                                           key |-> processed, brand |-> brand_name ]} ]
        ELSE st

\* The body of "for var in brand_data.get(variant_type, [])".
AddVariant(st, brand_name, variant_type, raw) ==
    LET var       == strip(raw)
        processed == preprocess_text(var)
    IN  IF var # <<>> /\ Len(var) > MinLen /\ processed # <<>> /\ Len(processed) > MinLen
        THEN [ st EXCEPT
               !.synonym_index = IndexAdd(@, processed, brand_name),
               !.max_words     = Max(@, Len(split(processed))),
               !.inserted      = @ \cup {[ raw |-> raw, kind |-> variant_type,
                                           key |-> processed, brand |-> brand_name ]} ]
        ELSE st

RECURSIVE AddVariantList(_, _, _, _)
\* for var in brand_data.get(variant_type, []): ...
AddVariantList(st, brand_name, variant_type, vs) ==
    IF vs = <<>> THEN st
    ELSE AddVariantList(AddVariant(st, brand_name, variant_type, Head(vs)),
                        brand_name, variant_type, Tail(vs))

\* The list the outer variants loop runs over, in its order.
VariantTypes == <<"exact_variants", "phonetic_variants", "colloquial_variants">>

RECURSIVE AddVariantTypes(_, _, _, _)
\* for variant_type in [...]: ...
AddVariantTypes(st, brand_name, brand_data, types) ==
    IF types = <<>> \/ st.raised THEN st
    ELSE LET got == DictGet(brand_data, Head(types), <<>>)
         IN  IF got.raised THEN Raise(st)
             ELSE AddVariantTypes(
                      AddVariantList(st, brand_name, Head(types), got.value),
                      brand_name, brand_data, Tail(types))

\* The part of the loop body after the status test: lines 31-59.
IndexItem(st, item) ==
    LET brand_name == Subscript(item, "original_brand")
        response   == DictGet(item, "response", EmptyDict)
        items      == DictGet(response.value, "items", <<>>)
    IN  IF brand_name.raised THEN Raise(st)
        ELSE IF Len(brand_name.value) <= MinLen THEN st
        ELSE IF response.raised \/ items.raised THEN Raise(st)
        ELSE IF items.value = <<>> THEN st
        ELSE AddVariantTypes(
                 AddOriginal(st, brand_name.value, items.value[1]),
                 brand_name.value, items.value[1], VariantTypes)

\* ProcessItem without the status test.
ProcessItem_IgnoresStatus(st, item) ==
    IF st.raised THEN st ELSE IndexItem(st, item)

\* One iteration of "for item in synonyms_data".
ProcessItem(st, item) ==
    IF st.raised THEN st
    ELSE IF DictGet(item, "status", "None").value # "success" THEN st
    ELSE IndexItem(st, item)

RECURSIVE BuildFrom(_, _)
BuildFrom(st, data) ==
    IF data = <<>> THEN st
    ELSE BuildFrom(ProcessItem(st, Head(data)), Tail(data))

\* build_synonym_index(synonyms_data), with the history of its insertions.
build_synonym_index(data) == BuildFrom(BuildStart, data)

----------------------------------------------------------------------------
(* Inputs of build_synonym_index *)

\* Longest vocabulary (number of records of synonyms_data).
MaxItems == 2

\* Brand names: two of more than three characters and one of two.
BrandBaaB == <<"B", "a", "a", "B">>

BrandABBa == <<"a", "B", "B", "a">>

BrandBa == <<"B", "a">>

LongBrands == {BrandBaaB, BrandABBa}

\* Values of the "original" field that differ from the record's brand name:
\* absent, two characters, whitespace-only once processed, two letters once
\* processed.
OtherOriginals ==
    { <<>>,
      <<"a", "B">>,
      <<".", " ", ".">>,
      <<"a", ".", "B", ".">> }

\* Variant strings.
VarPlain == <<"B", "a", "a", "B">>            \* -> "baab"

VarTwoWords == <<"a", "a", " ", "B">>         \* -> "aa b"

VarShort == <<"B", "a">>                      \* raw length 2

VarPadded == <<" ", "a", "B", "B">>           \* raw length 4, stripped length 3

VarPaddedLong == <<" ", "a", "B", "B", "a">>  \* stripped to "aBBa" -> "abba"

VarPunct == <<"a", ".", "a", "a">>            \* raw length 4, processed length 3

VarDash == <<"a", " ", "-", " ", "B">>        \* -> "a  b", two spaces

VarBlank == <<".", " ", " ", " ", " ", ".">>  \* -> four spaces

ExactLists ==
    { <<VarPlain>>, <<VarTwoWords>>, <<VarShort>>, <<VarPadded>>, <<VarPaddedLong>>,
      <<VarPunct>>, <<VarDash>>, <<VarBlank>>, <<VarShort, VarPlain>> }

PhoneticLists == { <<VarPlain>>, <<VarTwoWords>>, <<VarShort>> }

ColloquialLists == { <<VarTwoWords>>, <<VarDash>> }

BrandData(original, exact, phonetic, colloquial) ==
    [ original            |-> original,
      exact_variants      |-> exact,
      phonetic_variants   |-> phonetic,
      colloquial_variants |-> colloquial ]

\* The first element of response["items"] for brand b: the model's answer
\* either carries only an "original" (the brand name or another string), or
\* echoes the brand name and fills one of the three variant lists.
BrandDataFor(b) ==
    { BrandData(o, <<>>, <<>>, <<>>) : o \in OtherOriginals \cup {b} }
    \cup { BrandData(b, e, <<>>, <<>>) : e \in ExactLists }
    \cup { BrandData(b, <<>>, ph, <<>>) : ph \in PhoneticLists }
    \cup { BrandData(b, <<>>, <<>>, c) : c \in ColloquialLists }

Item(b, status, items) ==
    [ original_brand |-> b, status |-> status, response |-> [items |-> items] ]

\* The records for one successfully generated brand b of a long name.
SuccessItemsFor(b) ==
    { Item(b, "success", <<d>>) : d \in BrandDataFor(b) }
    \cup { Item(b, "success", <<>>) }

\* Records with status "error" still carrying a response.
ErrorItemsFor(b) ==
    { Item(b, "error", <<d>>) :
        d \in { BrandData(b, <<VarPlain>>, <<>>, <<>>),
                BrandData(b, <<>>, <<VarTwoWords>>, <<>>) } }

\* Records of the brand whose name has two characters.
ShortBrandItems ==
    { Item(BrandBa, "success", <<d>>) :
        d \in { BrandData(BrandBa, <<VarPlain>>, <<>>, <<>>),
                BrandData(<<>>, <<>>, <<>>, <<VarTwoWords>>) } }

\* Success records with keys missing: no response, no items, a first item
\* with no key at all, with only short variants and no original, and with an
\* original but no variant lists.
PartialItems ==
    { [ original_brand |-> BrandBaaB, status |-> "success" ],
      [ original_brand |-> BrandBaaB, status |-> "success", response |-> EmptyDict ],
      [ original_brand |-> BrandBaaB, status |-> "success",
        response |-> [items |-> <<EmptyDict>>] ],
      [ original_brand |-> BrandBaaB, status |-> "success",
        response |-> [items |-> <<[exact_variants |-> <<VarShort, <<>>>>]>>] ],
      [ original_brand |-> BrandBaaB, status |-> "success",
        response |-> [items |-> <<[original |-> BrandBaaB]>>] ] }

Items ==
    UNION { SuccessItemsFor(b) \cup ErrorItemsFor(b) : b \in LongBrands }
    \cup ShortBrandItems
    \cup { Item(BrandBaaB, "error", <<>>) }
    \cup PartialItems

RECURSIVE SeqsUpTo(_, _)
SeqsUpTo(S, n) ==
    IF n = 0 THEN {<<>>}
    ELSE LET shorter == SeqsUpTo(S, n - 1)
         IN  shorter \cup { Append(q, x) : q \in shorter, x \in S }

Vocabularies == SeqsUpTo(Items, MaxItems)

----------------------------------------------------------------------------
(* The index builder as a state machine *)

NoMatchState ==
    /\ text = <<>>
    /\ words = <<>>
    /\ ngrams = {}
    /\ found = <<>>
    /\ result = <<>>

InitBuild ==
    /\ pc = "build_call"
    /\ synonyms_data \in Vocabularies
    /\ synonym_index = EmptyIndex
    /\ max_words = 0
    /\ brand_original_form = BuildStart.brand_original_form
    /\ inserted = {}
    /\ NoMatchState
    /\ AuxIdle

\* synonym_index, max_words, brand_original_form = build_synonym_index(synonyms_data)
Build ==
    /\ pc = "build_call"
    /\ LET st == build_synonym_index(synonyms_data)
       IN  IF st.raised
           THEN /\ pc' = "build_raised"
                /\ inserted' = st.inserted
                /\ UNCHANGED <<synonym_index, max_words, brand_original_form>>
           ELSE /\ pc' = "built"
                /\ synonym_index' = st.synonym_index
                /\ max_words' = st.max_words
                /\ brand_original_form' = st.brand_original_form
                /\ inserted' = st.inserted
    /\ UNCHANGED <<synonyms_data, matchVars, auxVars>>

NextBuild == Build

SpecBuild == InitBuild /\ [][NextBuild]_vars

----------------------------------------------------------------------------
(* Properties of build_synonym_index *)

Built == pc = "built"

\* words[:k-1] + words[k:], 1-based
RemoveAt(q, k) == SubSeq(q, 1, k - 1) \o SubSeq(q, k + 1, Len(q))

\* Every variant string of a brand_data record, over the three classes.
VariantsOf(brand_data) ==
    UNION { { brand_data[VariantTypes[t]][j] :
                j \in 1..Len(brand_data[VariantTypes[t]]) } :
            t \in { u \in 1..Len(VariantTypes) : VariantTypes[u] \in DOMAIN brand_data } }

\* item["response"]["items"], empty when either key is missing.
ItemsOf(item) ==
    IF "response" \in DOMAIN item /\ "items" \in DOMAIN item["response"]
    THEN item["response"]["items"]
    ELSE <<>>

\* The largest number of whitespace-separated words of a phrase of keys.
MaxWordCount(keys) ==
    IF keys = {} THEN 0
    ELSE CHOOSE m \in { Len(split(k)) : k \in keys } :
             \A k \in keys : Len(split(k)) <= m

\* C5: no index key is inserted on behalf of a string (original name or
\* variant of any class) whose raw length is at most three characters.
C5_RawLengthFilter ==
    Built => \A e \in inserted : Len(e.raw) > MinLen

\* C6: every key of the built index is non-empty, is not made of whitespace
\* only and has more than three characters.
C6_KeysLongAndNonBlank ==
    Built => \A k \in DOMAIN synonym_index :
                 k # <<>> /\ split(k) # <<>> /\ Len(k) > MinLen

\* C7 as stated: for every success record of brand B and every variant v of
\* it whose raw and normalized lengths both exceed three, normalize(v) is a
\* key and B is in its set.
C7_IndexMembership ==
    Built =>
      \A k \in 1..Len(synonyms_data) :
        LET item == synonyms_data[k]
        IN  item.status = "success" =>
              \A j \in 1..Len(ItemsOf(item)) :
                \A v \in VariantsOf(ItemsOf(item)[j]) :
                  (Len(v) > MinLen /\ Len(preprocess_text(v)) > MinLen) =>
                     /\ preprocess_text(v) \in DOMAIN synonym_index
                     /\ item.original_brand \in synonym_index[preprocess_text(v)]

\* C7 amended: for every success record whose brand name B has more than
\* three characters and whose items list is non-empty, and every variant v
\* of its first item whose stripped form and normalized stripped form both
\* have more than three characters, normalize(strip(v)) is a key and B is in
\* its set (so brands sharing a phrase are all in the set).
C7_IndexMembershipStripped ==
    Built =>
      \A k \in 1..Len(synonyms_data) :
        LET item == synonyms_data[k]
        IN  ( /\ item.status = "success"
              /\ Len(item.original_brand) > MinLen
              /\ ItemsOf(item) # <<>> ) =>
              \A v \in VariantsOf(ItemsOf(item)[1]) :
                LET key == preprocess_text(strip(v))
                IN  (Len(strip(v)) > MinLen /\ Len(key) > MinLen) =>
                       /\ key \in DOMAIN synonym_index
                       /\ item.original_brand \in synonym_index[key]

\* Two records of different brands carry the same two-word variant, and the
\* key of that variant maps to both brands.
C7_Witness ==
    /\ Built
    /\ Len(synonyms_data) = 2
    /\ synonyms_data[1].original_brand # synonyms_data[2].original_brand
    /\ \A k \in 1..2 :
         /\ synonyms_data[k].status = "success"
         /\ ItemsOf(synonyms_data[k]) # <<>>
         /\ VarTwoWords \in VariantsOf(ItemsOf(synonyms_data[k])[1])
    /\ preprocess_text(VarTwoWords) \in DOMAIN synonym_index
    /\ synonym_index[preprocess_text(VarTwoWords)] = LongBrands

\* C8: every key of the built index equals its whitespace-split words joined
\* by single spaces.
C8_KeysCanonical ==
    Built => \A k \in DOMAIN synonym_index : k = join(split(k))

\* C9: the returned max_words is the maximum number of words over the keys
\* of the returned index, and 0 for an empty index.
C9_MaxWords ==
    Built => max_words = MaxWordCount(DOMAIN synonym_index)

\* An index with keys of one and of two words.
C9_Witness ==
    /\ Built
    /\ max_words = 2
    /\ \E k1, k2 \in DOMAIN synonym_index :
         Len(split(k1)) = 1 /\ Len(split(k2)) = 2

\* C10: a record whose status is not success contributes nothing: building
\* from the vocabulary without it returns the same index, max_words and
\* original-form map.
C10_FailedEntryIgnored ==
    Built =>
      \A k \in 1..Len(synonyms_data) :
        synonyms_data[k].status # "success" =>
          LET st == build_synonym_index(RemoveAt(synonyms_data, k))
          IN  /\ st.synonym_index = synonym_index
              /\ st.max_words = max_words
              /\ st.brand_original_form = brand_original_form

\* A failed record, next to a record that was indexed, carries a variant that
\* would have been indexed under a key the index does not have.
C10_Witness ==
    /\ Built
    /\ DOMAIN synonym_index # {}
    /\ \E k \in 1..Len(synonyms_data) :
         /\ synonyms_data[k].status # "success"
         /\ LET alone == ProcessItem(BuildStart,
                                     [synonyms_data[k] EXCEPT !.status = "success"])
            IN  DOMAIN alone.synonym_index \ DOMAIN synonym_index # {}

\* A record that offers nothing to index: no first item, or a first item
\* whose original name is missing or blank and whose variant lists are
\* missing or hold only strings of at most three characters.
Unusable(item) ==
    \/ ItemsOf(item) = <<>>
    \/ LET brand_data == ItemsOf(item)[1]
       IN  /\ "original" \in DOMAIN brand_data => strip(brand_data["original"]) = <<>>
           /\ \A v \in VariantsOf(brand_data) : Len(v) <= MinLen

\* The brands some set of the index holds.
IndexedBrands == UNION { synonym_index[k] : k \in DOMAIN synonym_index }

----------------------------------------------------------------------------
(* 02_match_synonyms.py: match_brands_in_dialog *)

\* "brand in found", found being the item list of the dict.
InFound(fnd, brand) == \E i \in 1..Len(fnd) : fnd[i][1] = brand

\* RecordBrand without the "brand not in found" test.
RecordBrand_NoTest(fnd, brand, ngram) == Append(fnd, <<brand, ngram>>)

\* if brand not in found: found[brand] = ngram
RecordBrand(fnd, brand, ngram) ==
    IF InFound(fnd, brand) THEN fnd ELSE Append(fnd, <<brand, ngram>>)

\* RecordBrands leaving the loop after the first brand of the set.
RecordBrands_FirstOnly(fnd, order, ngram) ==
    IF order = <<>> THEN fnd ELSE RecordBrand(fnd, Head(order), ngram)

RECURSIVE RecordBrands(_, _, _)
\* for brand in synonym_index[ngram]: ..., the set being visited in `order`.
RecordBrands(fnd, order, ngram) ==
    IF order = <<>> THEN fnd
    ELSE RecordBrands(RecordBrand(fnd, Head(order), ngram), Tail(order), ngram)

\* synonym_index[k] of a defaultdict(set): a missing key is inserted with an
\* empty set (__missing__); the dict after the access.
DefaultGet(idx, k) ==
    IF k \in DOMAIN idx THEN idx ELSE idx @@ (k :> {})

\* ProbeIndex with the index subscripted without the membership test.
ProbeIndex_NoMembershipTest(idx, ngram) == DefaultGet(idx, ngram)

\* if ngram in synonym_index: ... synonym_index[ngram] ...; the index after
\* the iteration.
ProbeIndex(idx, ngram) ==
    IF ngram \in DOMAIN idx THEN DefaultGet(idx, ngram) ELSE idx

\* The orders in which iterating a Python set may yield its elements.
Orders(S) ==
    { q \in [1..Cardinality(S) -> S] :
        \A i, j \in 1..Cardinality(S) : q[i] = q[j] => i = j }

----------------------------------------------------------------------------
(* Inputs of match_brands_in_dialog *)

\* Longest dialogue text, in characters.
MaxTextLen == 4

\* Largest max_words passed to the matcher.
MaxPhraseWords == 2

TextChars == {"a", "B", ".", " "}

Dialogues == SeqsUpTo(TextChars, MaxTextLen)

IndexKeys == { <<"a">>, <<"b">>, <<"a", " ", "b">> }

\* Every index over a subset of IndexKeys, each key with a non-empty brand set.
Indexes ==
    UNION { [K -> (SUBSET LongBrands) \ {{}}] : K \in SUBSET IndexKeys }

----------------------------------------------------------------------------
(* The matcher as a state machine *)

InitMatch ==
    /\ pc = "match_call"
    /\ text \in Dialogues
    /\ synonym_index \in Indexes
    /\ max_words \in 0..MaxPhraseWords
    /\ synonyms_data = <<>>
    /\ brand_original_form = BuildStart.brand_original_form
    /\ inserted = {}
    /\ words = <<>>
    /\ ngrams = {}
    /\ found = <<>>
    /\ result = <<>>
    /\ AuxIdle

\* text_processed = preprocess_text(text); words = text_processed.split()
\* ngrams = get_ngrams(words, max_n=max_words); found = {}
MatchStart ==
    /\ pc = "match_call"
    /\ words' = split(preprocess_text(text))
    /\ ngrams' = get_ngrams(split(preprocess_text(text)), max_words)
    /\ found' = <<>>
    /\ pc' = "match_loop"
    /\ UNCHANGED <<synonym_index, max_words, buildVars, text, result, auxVars>>

\* One iteration of "for ngram in ngrams": ngrams is a set of str, so the
\* loop may visit any not yet visited element next.
MatchProbe ==
    /\ pc = "match_loop"
    /\ \E ngram \in ngrams :
         /\ ngrams' = ngrams \ {ngram}
         /\ IF ngram \in DOMAIN synonym_index
            THEN \E order \in Orders(synonym_index[ngram]) :
                     found' = RecordBrands(found, order, ngram)
            ELSE found' = found
         /\ synonym_index' = ProbeIndex(synonym_index, ngram)
    /\ UNCHANGED <<pc, max_words, buildVars, text, words, result, auxVars>>

\* return [(brand, synonym) for brand, synonym in found.items()]
MatchReturn ==
    /\ pc = "match_loop"
    /\ ngrams = {}
    /\ result' = found
    /\ pc' = "match_done"
    /\ UNCHANGED <<synonym_index, max_words, buildVars, text, words, ngrams, found,
                   auxVars>>

NextMatch == MatchStart \/ MatchProbe \/ MatchReturn

SpecMatch == InitMatch /\ [][NextMatch]_vars

----------------------------------------------------------------------------
(* Properties of match_brands_in_dialog *)

MatchDone == pc = "match_done"

\* The normalized word sequence of the dialogue.
DialogueWords == split(preprocess_text(text))

\* The windows <<start, length>> of 1..max_words whole words of the dialogue.
Windows ==
    { w \in (1..Len(DialogueWords)) \X (1..max_words) :
        w[1] + w[2] - 1 <= Len(DialogueWords) }

\* The words of a window joined by single spaces.
Phrase(w) == join(SubSeq(DialogueWords, w[1], w[1] + w[2] - 1))

\* The windows whose phrase is an index key that maps to brand.
MatchingWindows(brand) ==
    { w \in Windows :
        Phrase(w) \in DOMAIN synonym_index /\ brand \in synonym_index[Phrase(w)] }

\* Generation order of get_ngrams: by start position, then by length.
Precedes(w, v) == w[1] < v[1] \/ (w[1] = v[1] /\ w[2] <= v[2])

FirstWindow(brand) ==
    CHOOSE w \in MatchingWindows(brand) :
        \A v \in MatchingWindows(brand) : Precedes(w, v)

ResultBrands == { result[k][1] : k \in 1..Len(result) }

\* C1: the returned list has at most one pair per brand.
C1_OnePairPerBrand ==
    \A i, j \in 1..Len(result) : result[i][1] = result[j][1] => i = j

\* A brand reached by two different phrases of the dialogue is returned.
C1_Witness ==
    /\ MatchDone
    /\ \E b \in ResultBrands :
         \E w, v \in MatchingWindows(b) : Phrase(w) # Phrase(v)

\* C2: the phrase kept for a brand is the matching n-gram with the leftmost
\* start position and, among those, the fewest words.
C2_LeftmostShortestKept ==
    MatchDone =>
      \A k \in 1..Len(result) :
        MatchingWindows(result[k][1]) # {} =>
          result[k][2] = Phrase(FirstWindow(result[k][1]))

\* C3: every returned pair (brand, phrase) has phrase equal to a run of
\* 1..max_words whole dialogue words joined by single spaces, phrase a key of
\* the index and brand in index[phrase].
C3_MatchSound ==
    MatchDone =>
      \A k \in 1..Len(result) :
        /\ \E w \in Windows : result[k][2] = Phrase(w)
        /\ result[k][2] \in DOMAIN synonym_index
        /\ result[k][1] \in synonym_index[result[k][2]]

\* With max_words = 1 a two-word dialogue whose bigram is an index key yields
\* a non-empty result made of one-word phrases only.
C3_Witness ==
    /\ MatchDone
    /\ max_words = 1
    /\ Len(DialogueWords) = 2
    /\ join(DialogueWords) \in DOMAIN synonym_index
    /\ result # <<>>
    /\ \A k \in 1..Len(result) : Len(split(result[k][2])) = 1

\* C4: the returned brands are exactly the union of index[g] over the
\* n-grams g of 1..max_words dialogue words that are index keys.
C4_MatchComplete ==
    MatchDone =>
      ResultBrands =
        UNION { synonym_index[Phrase(w)] :
                  w \in { v \in Windows : Phrase(v) \in DOMAIN synonym_index } }

\* A two-word key that maps to two brands is hit and both are returned.
C4_Witness ==
    /\ MatchDone
    /\ \E w \in Windows :
         /\ w[2] = 2
         /\ Phrase(w) \in DOMAIN synonym_index
         /\ Cardinality(synonym_index[Phrase(w)]) = 2
         /\ \A b \in synonym_index[Phrase(w)] :
              \E k \in 1..Len(result) : result[k] = <<b, Phrase(w)>>

----------------------------------------------------------------------------
(* 02_match_synonyms.py: main, the index built once and every row matched *)

\* Longest vocabulary of a run.
MaxRunItems == 2

\* Largest number of rows of the dialogue file.
MaxRows == 2

\* Records of synonyms.json: two brands sharing the phrase "aa b", a brand
\* with a phrase no dialogue can hold ("a  b"), and a failed record.
RunItems ==
    { Item(BrandBaaB, "success", <<BrandData(BrandBaaB, <<VarTwoWords>>, <<>>, <<>>)>>),
      Item(BrandABBa, "success", <<BrandData(BrandABBa, <<>>, <<VarTwoWords>>, <<>>)>>),
      Item(BrandABBa, "success", <<BrandData(BrandABBa, <<>>, <<>>, <<VarDash>>)>>),
      Item(BrandBaaB, "error", <<>>) }

RunVocabularies == SeqsUpTo(RunItems, MaxRunItems)

\* Values of the source_text column: empty, punctuation only, whitespace and
\* punctuation only, a brand name, a shared phrase, words that are no key,
\* two brand names.
RunDialogues ==
    { <<>>,
      <<".">>,
      <<" ", ".", " ">>,
      <<"B", "a", "a", ".", "B">>,
      <<"a", "a", " ", "B">>,
      <<"a", " ", "B">>,
      <<"a", "B", "B", "a", " ", "b", "a", "a", "b">> }

InitRun ==
    /\ pc = "build_call"
    /\ synonyms_data \in RunVocabularies
    /\ synonym_index = EmptyIndex
    /\ max_words = 0
    /\ brand_original_form = BuildStart.brand_original_form
    /\ inserted = {}
    /\ NoMatchState
    /\ AuxIdle

\* The loop "for idx, row in df.iterrows()" reaches a row and calls
\* match_brands_in_dialog on its text.
RowCall ==
    /\ pc \in {"built", "row_done"}
    /\ Len(results) < MaxRows
    /\ \E t \in RunDialogues : text' = t
    /\ pc' = "match_call"
    /\ UNCHANGED <<synonym_index, max_words, buildVars, words, ngrams, found,
                   result, results, normVars, ngramVars, serviceVars>>

\* results.append({... "source_text": text, "matched_brands": ... matches ...})
RowAppend ==
    /\ pc = "match_done"
    /\ results' = Append(results, [source_text |-> text, matches |-> result])
    /\ pc' = "row_done"
    /\ UNCHANGED <<synonym_index, max_words, buildVars, matchVars, normVars,
                   ngramVars, serviceVars>>

NextRun == Build \/ RowCall \/ MatchStart \/ MatchProbe \/ MatchReturn \/ RowAppend

SpecRun == InitRun /\ [][NextRun]_vars

----------------------------------------------------------------------------
(* Properties of the run *)

\* The index has been built and rows are being matched.
Matching == pc \in {"built", "match_call", "match_loop", "match_done", "row_done"}

\* A text of punctuation and whitespace characters only (or empty).
BlankText(t) == \A i \in 1..Len(t) : t[i] \in Punctuation \cup Whitespace

\* C12: matching never mutates the index: after the build and through every
\* call of match_brands_in_dialog of the run, the index has the keys and the
\* brand sets build_synonym_index returned, and max_words is the returned one.
C12_IndexUnchangedByMatching ==
    Matching =>
      /\ synonym_index = build_synonym_index(synonyms_data).synonym_index
      /\ max_words = build_synonym_index(synonyms_data).max_words

\* Two rows were matched against a non-empty index: the first found a brand,
\* the second had n-grams none of which is a key.
C12_Witness ==
    /\ pc = "row_done"
    /\ Len(results) = 2
    /\ DOMAIN synonym_index # {}
    /\ results[1].matches # <<>>
    /\ results[2].matches = <<>>
    /\ words # <<>>
    /\ get_ngrams(words, max_words) # {}
    /\ get_ngrams(words, max_words) \cap DOMAIN synonym_index = {}

\* C14: a call of match_brands_in_dialog on an empty, punctuation-only or
\* whitespace-only text returns the empty list whatever the index; the index
\* built from an empty vocabulary is empty with max_words 0, and every row
\* matched against it gets the empty list.
C14_EmptyInEmptyOut ==
    /\ (pc = "match_done" /\ BlankText(text)) => result = <<>>
    /\ (Matching /\ synonyms_data = <<>>) =>
           /\ synonym_index = EmptyIndex
           /\ max_words = 0
           /\ pc = "match_done" => result = <<>>
           /\ \A k \in 1..Len(results) : results[k].matches = <<>>

\* Against a non-empty index a row found a brand and then a row of
\* punctuation and whitespace got the empty list.
C14_Witness ==
    /\ pc = "row_done"
    /\ Len(results) = 2
    /\ DOMAIN synonym_index # {}
    /\ results[1].matches # <<>>
    /\ results[2].source_text # <<>>
    /\ BlankText(results[2].source_text)
    /\ results[2].matches = <<>>

\* From the empty vocabulary, a row whose text has words got the empty list.
C14_WitnessEmptyVocabulary ==
    /\ pc = "row_done"
    /\ synonyms_data = <<>>
    /\ Len(results) >= 1
    /\ split(preprocess_text(results[1].source_text)) # <<>>
    /\ results[1].matches = <<>>

----------------------------------------------------------------------------
(* utils.py: preprocess_text called on its own *)

\* Longest argument of preprocess_text, in characters.
MaxNormLen == 3

\* A letter in both cases, a punctuation character and a whitespace character.
NormChars == {"a", "A", ".", " "}

NormTexts == SeqsUpTo(NormChars, MaxNormLen)

InitNormalize ==
    /\ pc = "normalize_call"
    /\ text \in NormTexts
    /\ synonyms_data = <<>>
    /\ synonym_index = EmptyIndex
    /\ max_words = 0
    /\ brand_original_form = BuildStart.brand_original_form
    /\ inserted = {}
    /\ words = <<>>
    /\ ngrams = {}
    /\ found = <<>>
    /\ result = <<>>
    /\ AuxIdle

\* text_processed = preprocess_text(text)
Normalize ==
    /\ pc = "normalize_call"
    /\ text_processed' = preprocess_text(text)
    /\ pc' = "normalize_done"
    /\ UNCHANGED <<synonym_index, max_words, buildVars, matchVars, runVars,
                   ngramVars, serviceVars>>

NextNormalize == Normalize

SpecNormalize == InitNormalize /\ [][NextNormalize]_vars

\* Two characters that are one letter in either case, or the same character.
SameLetter(c, d) == c = d \/ {c, d} = {"a", "A"} \/ {c, d} = {"b", "B"}

RECURSIVE Alike(_, _)
\* s and t differ only in letter case and in punctuation characters: they
\* are equal once punctuation characters are dropped from both and letters
\* are compared without regard to case.
Alike(s, t) ==
    \/ s = <<>> /\ t = <<>>
    \/ s # <<>> /\ Head(s) \in Punctuation /\ Alike(Tail(s), t)
    \/ t # <<>> /\ Head(t) \in Punctuation /\ Alike(s, Tail(t))
    \/ /\ s # <<>> /\ t # <<>>
       /\ Head(s) \notin Punctuation /\ Head(t) \notin Punctuation
       /\ SameLetter(Head(s), Head(t))
       /\ Alike(Tail(s), Tail(t))

\* C13: preprocess_text is idempotent, and it returns the same string for
\* two arguments that differ only in letter case or punctuation characters.
C13_IdempotentCaseInvariant ==
    pc = "normalize_done" =>
      /\ preprocess_text(text_processed) = text_processed
      /\ \A t \in NormTexts : Alike(text, t) => preprocess_text(t) = text_processed

\* "Aa." was normalized to "aa", as are "aa" and "AA".
C13_Witness ==
    /\ pc = "normalize_done"
    /\ text = <<"A", "a", ".">>
    /\ text_processed = <<"a", "a">>
    /\ Alike(text, <<"a", "a">>)
    /\ Alike(text, <<"A", "A">>)

----------------------------------------------------------------------------
(* utils.py: get_ngrams called on its own *)

\* Longest word list passed to get_ngrams.
MaxWords == 4

\* Largest max_n passed to get_ngrams.
MaxN == 3

\* The words of the lists.
WordPool == { <<"a">>, <<"b">> }

WordLists == SeqsUpTo(WordPool, MaxWords)

InitNgrams ==
    /\ pc = "ngrams_call"
    /\ words \in WordLists
    /\ max_words \in 0..MaxN
    /\ ngrams = {}
    /\ text = <<>>
    /\ found = <<>>
    /\ result = <<>>
    /\ synonyms_data = <<>>
    /\ synonym_index = EmptyIndex
    /\ brand_original_form = BuildStart.brand_original_form
    /\ inserted = {}
    /\ AuxIdle

\* ngrams = get_ngrams(words, max_n=max_words)
Ngrams ==
    /\ pc = "ngrams_call"
    /\ ngrams' = get_ngrams(words, max_words)
    /\ added' = Cardinality(ngram_loop(words, max_words))
    /\ pc' = "ngrams_done"
    /\ UNCHANGED <<synonym_index, max_words, buildVars, text, words, found, result,
                   runVars, normVars, serviceVars>>

NextNgrams == Ngrams

SpecNgrams == InitNgrams /\ [][NextNgrams]_vars

\* C15: get_ngrams returns exactly the phrases of the windows of 1..max_n
\* words that stay inside the list; for len(words) >= max_n the number of
\* windows generated is L*max_n - max_n*(max_n-1)/2; for max_n = 0 or an
\* empty list the result is empty.
C15_ExactlyTheWindows ==
    pc = "ngrams_done" =>
      LET L     == Len(words)
          max_n == max_words
      IN  /\ ngrams = { join(SubSeq(words, w[1] + 1, w[1] + w[2])) :
                          w \in { v \in (0..(L - 1)) \X (1..max_n) : v[1] + v[2] <= L } }
          /\ L >= max_n => added = L * max_n - (max_n * (max_n - 1)) \div 2
          /\ (max_n = 0 \/ L = 0) => ngrams = {}

\* Three words, two of them equal, and max_n = 2: five windows are generated
\* and the set holds four phrases.
C15_Witness ==
    /\ pc = "ngrams_done"
    /\ Len(words) = 3
    /\ max_words = 2
    /\ added = 5
    /\ Cardinality(ngrams) = 4

----------------------------------------------------------------------------
(* brand_normalizer.py *)

\* The step numbers of the list "steps", in its order.
steps == <<1, 2, 3, 4>>

\* Return codes of a step's subprocess.
ReturnCodes == {0, 1, 2}

\* The value run_step returns: False when the script is missing or the
\* subprocess returned a non-zero code.
run_step(step_num, returncode) ==
    IF step_num \notin scripts THEN FALSE
    ELSE IF returncode # 0 THEN FALSE
    ELSE TRUE

\* AfterStep with the result of run_step ignored.
AfterStep_IgnoresFailure(success) == "loop_next"

\* if not success: ... sys.exit(1)
AfterStep(success) == IF success THEN "loop_next" ELSE "abort"

\* The rest of the model is idle while brand_normalizer.py runs.
MatcherIdle ==
    /\ synonyms_data = <<>>
    /\ synonym_index = EmptyIndex
    /\ max_words = 0
    /\ brand_original_form = BuildStart.brand_original_form
    /\ inserted = {}
    /\ text = <<>>
    /\ words = <<>>
    /\ ngrams = {}
    /\ found = <<>>
    /\ result = <<>>
    /\ RunIdle /\ NormIdle /\ NgramIdle

InitPipeline ==
    /\ pc = "main_call"
    /\ args \in [step : 0..Len(steps), skip_synonyms : BOOLEAN]
    /\ scripts \in SUBSET (1..Len(steps))
    /\ step_pos = 0
    /\ running = 0
    /\ started = <<>>
    /\ finished = <<>>
    /\ exit_code = -1
    /\ banner = FALSE
    /\ MatcherIdle
    /\ VerifyIdle
    /\ LimiterIdle
    /\ GenIdle

\* args = parser.parse_args(); if args.step: ... else: for ... in steps
ParseArgs ==
    /\ pc = "main_call"
    /\ IF args.step # 0
       THEN pc' = "single_step" /\ step_pos' = args.step
       ELSE pc' = "loop" /\ step_pos' = 1
    /\ UNCHANGED <<args, scripts, running, started, finished, exit_code, banner>>
    /\ UNCHANGED notPipeVars

\* if step_num == 1 and args.skip_synonyms: ... continue
SkipStep ==
    /\ pc = "loop"
    /\ step_pos <= Len(steps)
    /\ steps[step_pos] = 1 /\ args.skip_synonyms
    /\ step_pos' = step_pos + 1
    /\ UNCHANGED <<pc, args, scripts, running, started, finished, exit_code, banner>>
    /\ UNCHANGED notPipeVars

\* run_step(...) is called, from the loop or for the single step.
RunStepCall ==
    /\ pc \in {"loop", "single_step"}
    /\ step_pos <= Len(steps)
    /\ pc = "loop" => ~(steps[step_pos] = 1 /\ args.skip_synonyms)
    /\ running' = steps[step_pos]
    /\ started' = Append(started, steps[step_pos])
    /\ pc' = IF pc = "loop" THEN "loop_run_step" ELSE "single_run_step"
    /\ UNCHANGED <<args, scripts, step_pos, finished, exit_code, banner>>
    /\ UNCHANGED notPipeVars

\* run_step returns inside the loop: the next step, or the abort with
\* sys.exit(1).
RunStepReturnLoop ==
    /\ pc = "loop_run_step"
    /\ \E returncode \in ReturnCodes :
         LET success == run_step(running, returncode)
         IN  /\ finished' = Append(finished, [step |-> running, success |-> success])
             /\ IF AfterStep(success) = "loop_next"
                THEN /\ pc' = "loop"
                     /\ step_pos' = step_pos + 1
                     /\ exit_code' = exit_code
                ELSE /\ pc' = "exited"
                     /\ step_pos' = step_pos
                     /\ exit_code' = 1
    /\ running' = 0
    /\ UNCHANGED <<args, scripts, started, banner>>
    /\ UNCHANGED notPipeVars

\* run_step returns for --step: sys.exit(0 if success else 1)
RunStepReturnSingle ==
    /\ pc = "single_run_step"
    /\ \E returncode \in ReturnCodes :
         LET success == run_step(running, returncode)
         IN  /\ finished' = Append(finished, [step |-> running, success |-> success])
             /\ exit_code' = IF success THEN 0 ELSE 1
    /\ running' = 0
    /\ pc' = "exited"
    /\ UNCHANGED <<args, scripts, step_pos, started, banner>>
    /\ UNCHANGED notPipeVars

\* The loop is over: the success banner is printed and main returns.
PipelineDone ==
    /\ pc = "loop"
    /\ step_pos > Len(steps)
    /\ banner' = TRUE
    /\ exit_code' = 0
    /\ pc' = "exited"
    /\ UNCHANGED <<args, scripts, step_pos, running, started, finished>>
    /\ UNCHANGED notPipeVars

NextPipeline ==
    \/ ParseArgs
    \/ SkipStep
    \/ RunStepCall
    \/ RunStepReturnLoop
    \/ RunStepReturnSingle
    \/ PipelineDone

SpecPipeline == InitPipeline /\ [][NextPipeline]_vars

\* The steps a full run executes, in order.
ExpectedOrder == IF args.skip_synonyms THEN <<2, 3, 4>> ELSE <<1, 2, 3, 4>>

\* C16: in a full pipeline run the steps are started in the order 1, 2, 3, 4
\* (without 1 under --skip-synonyms); a step is started only after every
\* earlier started step has returned success; after a step that failed no
\* step is started and the process has exited with code 1; the success
\* banner is printed only if every step of the order ran and succeeded.
C16_PipelineOrderAndAbort ==
    args.step = 0 =>
      /\ Len(started) <= Len(ExpectedOrder)
      /\ started = SubSeq(ExpectedOrder, 1, Len(started))
      /\ Len(finished) <= Len(started)
      /\ \A i \in 1..Len(finished) : finished[i].step = started[i]
      /\ \A i \in 2..Len(started) :
           /\ Len(finished) >= i - 1
           /\ finished[i - 1].success
      /\ \A i \in 1..Len(finished) :
           ~finished[i].success =>
             /\ Len(started) = i
             /\ pc = "exited"
             /\ exit_code = 1
             /\ ~banner
      /\ banner =>
           /\ started = ExpectedOrder
           /\ Len(finished) = Len(started)
           /\ \A i \in 1..Len(finished) : finished[i].success

\* A full run in which step 1 succeeded and step 2 failed although its
\* script exists: two steps were started and the process exited with 1.
C16_Witness ==
    /\ args.step = 0
    /\ ~args.skip_synonyms
    /\ scripts = 1..Len(steps)
    /\ pc = "exited"
    /\ started = <<1, 2>>
    /\ Len(finished) = 2
    /\ finished[1].success
    /\ ~finished[2].success
    /\ exit_code = 1

\* A full run under --skip-synonyms that printed the success banner.
C16_WitnessBanner ==
    /\ args.step = 0
    /\ args.skip_synonyms
    /\ banner
    /\ started = <<2, 3, 4>>
    /\ exit_code = 0

----------------------------------------------------------------------------
(* 03_filter_llm.py: verify_brands under asyncio.gather *)

MAX_CONCURRENT == 8

\* MAX_RETRIES of 03_filter_llm.py.
MAX_RETRIES_03 == 2

\* Largest number of dialogs of the candidates file.
MaxDialogs == 2

\* What one request can come to: a parsed answer, a 429 or 503 status, or an
\* exception (timeout, connection error, other status, malformed JSON).
Outcomes == {"ok", "busy", "exception"}

\* RetryAllowed with the last attempt retried too.
RetryAllowed_Always(a) == a <= MAX_RETRIES_03

\* if attempt < MAX_RETRIES:
RetryAllowed(a) == a < MAX_RETRIES_03

\* The tasks of the gather, one per dialog.
Tasks == 1..progress.total

InitVerify ==
    /\ pc = "gather"
    /\ \E n \in 0..MaxDialogs :
         /\ progress = [done |-> 0, total |-> n, success |-> 0, errors |-> 0]
         /\ vpc = [t \in 1..n |-> "start"]
         /\ attempt = [t \in 1..n |-> 0]
         /\ requests = [t \in 1..n |-> 0]
         /\ returned = [t \in 1..n |-> <<>>]
    /\ permits = MAX_CONCURRENT
    /\ MatcherIdle
    /\ PipeIdle
    /\ LimiterIdle
    /\ GenIdle

\* async with semaphore: for attempt in range(MAX_RETRIES + 1):
Acquire(t) ==
    /\ vpc[t] = "start"
    /\ permits > 0
    /\ permits' = permits - 1
    /\ attempt' = [attempt EXCEPT ![t] = 0]
    /\ vpc' = [vpc EXCEPT ![t] = "try"]
    /\ UNCHANGED <<pc, progress, requests, returned>>
    /\ UNCHANGED notVerifyVars

\* The try body up to "async with session.post(...)".
Post(t) ==
    /\ vpc[t] = "try"
    /\ requests' = [requests EXCEPT ![t] = @ + 1]
    /\ vpc' = [vpc EXCEPT ![t] = "await_response"]
    /\ UNCHANGED <<pc, progress, permits, attempt, returned>>
    /\ UNCHANGED notVerifyVars

\* The task returns a result: the semaphore is released.
Return(t, status) ==
    /\ returned' = [returned EXCEPT ![t] = Append(@, status)]
    /\ permits' = permits + 1
    /\ vpc' = [vpc EXCEPT ![t] = "done"]

\* except Exception: retry after a sleep, or count the error and return.
Except(t) ==
    IF RetryAllowed(attempt[t])
    THEN /\ vpc' = [vpc EXCEPT ![t] = "sleep"]
         /\ UNCHANGED <<progress, permits, returned>>
    ELSE /\ progress' = [progress EXCEPT !.errors = @ + 1, !.done = @ + 1]
         /\ Return(t, "error")

\* The response arrives (or the request fails) and is handled up to the next
\* await or return.
Response(t) ==
    /\ vpc[t] = "await_response"
    /\ \E outcome \in Outcomes :
         CASE outcome = "ok" ->
                /\ progress' = [progress EXCEPT !.success = @ + 1, !.done = @ + 1]
                /\ Return(t, "success")
           [] outcome = "busy" ->
                IF RetryAllowed(attempt[t])
                THEN /\ vpc' = [vpc EXCEPT ![t] = "sleep"]
                     /\ UNCHANGED <<progress, permits, returned>>
                ELSE Except(t)
           [] outcome = "exception" -> Except(t)
    /\ UNCHANGED <<pc, attempt, requests>>
    /\ UNCHANGED notVerifyVars

\* asyncio.sleep is over and "continue" takes the loop to its next
\* iteration; when range(MAX_RETRIES + 1) is exhausted the function falls off
\* its end and returns None.
Continue(t) ==
    /\ vpc[t] = "sleep"
    /\ IF attempt[t] + 1 < MAX_RETRIES_03 + 1
       THEN /\ attempt' = [attempt EXCEPT ![t] = @ + 1]
            /\ vpc' = [vpc EXCEPT ![t] = "try"]
            /\ UNCHANGED <<permits, returned>>
       ELSE /\ Return(t, "None")
            /\ UNCHANGED attempt
    /\ UNCHANGED <<pc, progress, requests>>
    /\ UNCHANGED notVerifyVars

\* results = await asyncio.gather(*tasks)
GatherDone ==
    /\ pc = "gather"
    /\ \A t \in Tasks : vpc[t] = "done"
    /\ pc' = "gathered"
    /\ UNCHANGED verifyVars
    /\ UNCHANGED notVerifyVars

NextVerify ==
    \/ \E t \in Tasks : Acquire(t)
    \/ \E t \in Tasks : Post(t)
    \/ \E t \in Tasks : Response(t)
    \/ \E t \in Tasks : Continue(t)
    \/ GatherDone

SpecVerify == InitVerify /\ [][NextVerify]_vars

\* C17: every task posts at most MAX_RETRIES + 1 = 3 requests and returns
\* exactly one result, of status success or error; the progress counters
\* move once per returned dialog, done = success + errors at every point, and
\* done = total once every task has finished.
C17_BoundedAttemptsOneResult ==
    /\ \A t \in Tasks :
         /\ requests[t] <= MAX_RETRIES_03 + 1
         /\ Len(returned[t]) <= 1
         /\ vpc[t] = "done" =>
              /\ Len(returned[t]) = 1
              /\ returned[t][1] \in {"success", "error"}
    /\ progress.done = progress.success + progress.errors
    /\ progress.done = Cardinality({ t \in Tasks : vpc[t] = "done" })
    /\ progress.success = Cardinality({ t \in Tasks : returned[t] = <<"success">> })
    /\ pc = "gathered" => progress.done = progress.total

\* Two dialogs were gathered: one succeeded on its third request, one
\* returned an error after three requests.
C17_Witness ==
    /\ pc = "gathered"
    /\ progress.total = 2
    /\ \E t, u \in Tasks :
         /\ requests[t] = 3 /\ returned[t] = <<"success">>
         /\ requests[u] = 3 /\ returned[u] = <<"error">>
    /\ progress = [done |-> 2, total |-> 2, success |-> 1, errors |-> 1]

----------------------------------------------------------------------------
(* 01_generate_synonyms.py: RateLimiter shared by the tasks of a batch *)

MAX_RPS == 4

\* The clock counts half intervals: two ticks per 1 / MAX_RPS seconds.
TicksPerSecond == 2 * MAX_RPS

\* self.min_interval = 1.0 / max_per_second, in ticks
min_interval == TicksPerSecond \div MAX_RPS

\* Largest number of tasks of a batch calling acquire.
MaxBatch == 3

\* Ticks the clock advances during a run.
MaxTicks == 4

\* time.time() when the batch starts: longer than min_interval after 0.
StartTime == min_interval

\* The tasks of the batch.
Callers == DOMAIN lpc

InitLimiter ==
    /\ pc = "batch"
    /\ now = StartTime
    /\ last_call = 0
    /\ \E n \in 1..MaxBatch :
         /\ lpc = [t \in 1..n |-> "call"]
         /\ wake_at = [t \in 1..n |-> 0]
         /\ acquired_at = [t \in 1..n |-> -1]
    /\ MatcherIdle
    /\ PipeIdle
    /\ VerifyIdle
    /\ GenIdle

\* self.last_call = time.time(); acquire returns.
AcquireReturn(t) ==
    /\ last_call' = now
    /\ acquired_at' = [acquired_at EXCEPT ![t] = now]
    /\ lpc' = [lpc EXCEPT ![t] = "acquired"]

\* A task calls acquire: it runs to the sleep, or to the end when it does
\* not have to sleep.
AcquireCall(t) ==
    /\ lpc[t] = "call"
    /\ LET time_since_last == now - last_call
       IN  IF time_since_last < min_interval
           THEN /\ wake_at' = [wake_at EXCEPT ![t] = now + (min_interval - time_since_last)]
                /\ lpc' = [lpc EXCEPT ![t] = "sleep"]
                /\ UNCHANGED <<last_call, acquired_at>>
           ELSE /\ AcquireReturn(t)
                /\ UNCHANGED wake_at
    /\ UNCHANGED <<pc, now>>
    /\ UNCHANGED notLimiterVars

\* asyncio.sleep is over.
AcquireWake(t) ==
    /\ lpc[t] = "sleep"
    /\ now >= wake_at[t]
    /\ AcquireReturn(t)
    /\ UNCHANGED <<pc, now, wake_at>>
    /\ UNCHANGED notLimiterVars

\* Time passes.
Tick ==
    /\ now < StartTime + MaxTicks
    /\ now' = now + 1
    /\ UNCHANGED <<pc, last_call, lpc, wake_at, acquired_at>>
    /\ UNCHANGED notLimiterVars

NextLimiter ==
    \/ \E t \in Callers : AcquireCall(t)
    \/ \E t \in Callers : AcquireWake(t)
    \/ Tick

SpecLimiter == InitLimiter /\ [][NextLimiter]_vars

\* C18: any two returns of acquire, by any tasks, are at least min_interval
\* apart.
C18_ReturnsSeparated ==
    \A t, u \in Callers :
      (t # u /\ lpc[t] = "acquired" /\ lpc[u] = "acquired") =>
        \/ acquired_at[t] - acquired_at[u] >= min_interval
        \/ acquired_at[u] - acquired_at[t] >= min_interval

----------------------------------------------------------------------------
(* 01_generate_synonyms.py: generate_synonyms_for_brand *)

\* MAX_RETRIES of 01_generate_synonyms.py.
MAX_RETRIES_01 == 5

\* The brands of the input file.
GenBrands == {BrandBaaB, BrandABBa, BrandBa}

\* GenRetryAllowed with the exhausted counter retried too.
GenRetryAllowed_Always(n) == n <= MAX_RETRIES_01

\* retry_count < MAX_RETRIES
GenRetryAllowed(n) == n < MAX_RETRIES_01

\* The record of lines 124-128 or of lines 137-141.
GenRecord(status) == [original_brand |-> gen_brand, status |-> status]

InitGenerate ==
    /\ pc = "batch"
    /\ gen_brand \in GenBrands
    /\ retry_count = 0
    /\ gpc = "acquire"
    /\ frames = 1
    /\ gen_log = <<>>
    /\ gen_returned = <<>>
    /\ MatcherIdle
    /\ PipeIdle
    /\ VerifyIdle
    /\ LimiterIdle

\* await rate_limiter.acquire() returns and the request is built.
GenAcquired ==
    /\ gpc = "acquire"
    /\ gpc' = "post"
    /\ UNCHANGED <<pc, gen_brand, retry_count, frames, gen_log, gen_returned>>
    /\ UNCHANGED notGenVars

\* The innermost call returns a record: it is handed down the frames.
GenReturn(status) ==
    /\ gpc' = "return"
    /\ gen_returned' = <<GenRecord(status)>>

\* session.post(...) and the handling of its outcome up to the sleep or the
\* return.
GenRequest ==
    /\ gpc = "post"
    /\ \E outcome \in Outcomes :
         /\ gen_log' = Append(gen_log, outcome)
         /\ CASE outcome = "ok" -> GenReturn("success")
              [] outcome = "busy" /\ GenRetryAllowed(retry_count) ->
                    gpc' = "sleep" /\ UNCHANGED gen_returned
              [] OTHER ->
                    IF GenRetryAllowed(retry_count)
                    THEN gpc' = "sleep" /\ UNCHANGED gen_returned
                    ELSE GenReturn("error")
    /\ UNCHANGED <<pc, gen_brand, retry_count, frames>>
    /\ UNCHANGED notGenVars

\* The backoff sleep is over:
\* return await generate_synonyms_for_brand(session, brand, rate_limiter, retry_count + 1)
GenRecurse ==
    /\ gpc = "sleep"
    /\ retry_count' = retry_count + 1
    /\ frames' = frames + 1
    /\ gpc' = "acquire"
    /\ UNCHANGED <<pc, gen_brand, gen_log, gen_returned>>
    /\ UNCHANGED notGenVars

\* A call returns to the call that awaited it, and the first call to its
\* caller.
GenUnwind ==
    /\ gpc = "return"
    /\ frames' = frames - 1
    /\ gpc' = IF frames = 1 THEN "done" ELSE "return"
    /\ UNCHANGED <<pc, gen_brand, retry_count, gen_log, gen_returned>>
    /\ UNCHANGED notGenVars

NextGenerate == GenAcquired \/ GenRequest \/ GenRecurse \/ GenUnwind

SpecGenerate == InitGenerate /\ [][NextGenerate]_vars

\* Every await of the function ends: the limiter's sleep, the request (it
\* has a timeout) and the backoff sleep are finite.
SpecGenerateFair == SpecGenerate /\ WF_vars(NextGenerate)

\* The safety part of C19.
GenSafe ==
    /\ Len(gen_log) <= MAX_RETRIES_01 + 1
    /\ Len(gen_log) <= retry_count + 1
    /\ Len(gen_returned) <= 1
    /\ gpc = "done" =>
         /\ frames = 0
         /\ Len(gen_returned) = 1
         /\ gen_returned[1].original_brand = gen_brand
         /\ gen_returned[1].status \in {"success", "error"}
         /\ gen_returned[1].status = "success" <=> gen_log[Len(gen_log)] = "ok"
         /\ gen_returned[1].status = "error" <=>
              /\ Len(gen_log) = MAX_RETRIES_01 + 1
              /\ \A i \in 1..Len(gen_log) : gen_log[i] # "ok"

\* C19: generate_synonyms_for_brand terminates, after at most
\* MAX_RETRIES + 1 = 6 requests counted by one retry counter, with exactly
\* one record: success if a request succeeded, error once the retries are
\* exhausted, and original_brand the brand of the call.
C19_TerminatesWithOneRecord == []GenSafe /\ <>(gpc = "done")

\* Six requests were made, 429/503 answers and exceptions mixed, the sixth
\* succeeded and the record returned through all six calls.
C19_Witness ==
    /\ gpc = "done"
    /\ Len(gen_log) = 6
    /\ \E i, j \in 1..5 : gen_log[i] = "busy" /\ gen_log[j] = "exception"
    /\ gen_log[6] = "ok"
    /\ gen_returned = <<[original_brand |-> gen_brand, status |-> "success"]>>

\* Six requests failed, the last with a 429/503 answer, and the error
\* record was returned.
C19_WitnessError ==
    /\ gpc = "done"
    /\ Len(gen_log) = 6
    /\ gen_log[6] = "busy"
    /\ gen_returned = <<[original_brand |-> gen_brand, status |-> "error"]>>

====
